---- MODULE Spec2Model ----
(***************************************************************************)
(* MessageManager (src/src/service_layer/agents/message_manager.py): the   *)
(* conversation-context manager.  A window is a sequence of messages; a    *)
(* message has a role (SystemMessage / HumanMessage / AIMessage) and a     *)
(* content.  Of a content the code observes its character length, the      *)
(* keywords that occur in it, and the number of tokens the tokenizer       *)
(* backend (self.encoding) returns for it; a content is modelled by these  *)
(* observations.  Of a user text the summarizer copies the first 50        *)
(* characters, so a content also records what stands within them.  A       *)
(* generated history summary additionally records what _generate_summary   *)
(* wrote into it.  A text that holds one of the tokenizer's special tokens *)
(* is one encode() raises on; count_tokens then falls back to its          *)
(* character estimate.                                                     *)
(***************************************************************************)
EXTENDS Integers, Sequences, FiniteSets, TLC

\* ------------------------------------------------------------------ bounds
\* Longest input window handed to the manager.
MaxLen == 7
\* max_messages of a constructed manager ranges over 1..MaxMessagesBound.
MaxMessagesBound == 6
\* max_tokens of a constructed manager ranges over 1..MaxTokensBound.
MaxTokensBound == 3
\* Token cost the backend may report for a generated summary text: 1..MaxSummaryTokens.
MaxSummaryTokens == 1

\* ------------------------------------------------------- program constants
SystemBase == 90
AIBase == 30
HumanBase == 20
PositionWeight == 30
LongLength == 200
LongBonus == 10
MediumLength == 100
MediumBonus == 5
KeywordWeight == 3
PriorityCap == 100
TopicCap == 3
ExcerptChars == 50
ExcerptCap == 2
MinKeep == 6

\* The code's keywords are two-character Chinese words; they are named here by
\* their meaning: touzi = investment, celue = strategy, fenxi = analysis,
\* fengxian = risk, huice = backtest, shouyi = return, gupiao = stock, jijin = fund.
\* keywords of get_message_priority (line 82), in list order
PriorityKeywords ==
  <<"investment", "strategy", "analysis", "risk", "backtest", "return", "stock", "fund">>
\* keywords of _generate_summary (line 130), in list order
SummaryKeywords ==
  <<"investment", "strategy", "analysis", "risk", "stock", "fund", "backtest">>

\* ----------------------------------------------------------------- helpers
Min(a, b) == IF a <= b THEN a ELSE b
Max(a, b) == IF a >= b THEN a ELSE b

Range(s) == {s[i] : i \in 1..Len(s)}

\* Python seq[start:] for a start already normalised to 0..len
PyFrom(seq, start) == SubSeq(seq, start + 1, Len(seq))
\* Python seq[:stop] for a stop already normalised to 0..len
PyUpTo(seq, stop) == SubSeq(seq, 1, stop)
\* Python's normalisation of a slice index against a length
PyIndex(i, n) == IF i < 0 THEN Max(n + i, 0) ELSE Min(i, n)
\* messages[-k:]
PyLast(seq, k) == PyFrom(seq, PyIndex(0 - k, Len(seq)))
\* messages[:-k]
PyButLast(seq, k) == PyUpTo(seq, PyIndex(0 - k, Len(seq)))

\* --------------------------------------------------- binary floating point
\* The sums of lines 70-84 are Python float arithmetic: IEEE 754 binary64,
\* every operation rounded to 53 significant bits, ties to the even neighbour.
\* A non-negative double below 2^15 is held exactly, as the fixed-point number
\*   <<whole, l1, l2, l3, l4, l5>> = whole + l1 / 2^16 + ... + l5 / 2^80
\* with every limb l in 0 .. 2^16 - 1.
SignificandBits == 53
LimbBits == 16
LimbBase == 65536
FractionLimbs == 5

\* float(k) of an integer 0 <= k < 2^15
FromInt(k) == <<k, 0, 0, 0, 0, 0>>

\* float.is_integer
IsWhole(x) == \A j \in 2..(FractionLimbs + 1) : x[j] = 0

\* x < y
Less(x, y) ==
  \E j \in 1..(FractionLimbs + 1) : x[j] < y[j] /\ \A i \in 1..(j - 1) : x[i] = y[i]

\* x >= y
AtLeast(x, y) == ~Less(x, y)

RECURSIVE Log2(_)
Log2(n) == IF n <= 1 THEN 0 ELSE 1 + Log2(n \div 2)

\* The exponent e of x > 0: 2^e <= x < 2^(e + 1).
Exponent(x) ==
  IF x[1] > 0 THEN Log2(x[1])
  ELSE LET j == CHOOSE j \in 2..(FractionLimbs + 1) :
                  x[j] > 0 /\ \A i \in 2..(j - 1) : x[i] = 0
       IN Log2(x[j]) - LimbBits * (j - 1)

\* Propagate the carry of limb j into the limbs above it.
RECURSIVE Carry(_, _)
Carry(x, j) ==
  IF j = 1 \/ x[j] < LimbBase THEN x
  ELSE Carry([x EXCEPT ![j] = @ - LimbBase, ![j - 1] = @ + 1], j - 1)

\* Round an exact value to the nearest double, ties to even.  x holds the
\* first 80 fractional bits of the value, sticky says that the value has
\* non-zero bits beyond them.  kept is the number of fractional bits a double
\* of this exponent has; limb c holds the last of them, above its t lowest bits.
RoundToDouble(x, sticky) ==
  IF x = FromInt(0) THEN x
  ELSE LET kept == SignificandBits - 1 - Exponent(x)
       IN IF kept >= LimbBits * FractionLimbs THEN x
          ELSE LET c == kept \div LimbBits + 2
                   t == LimbBits - (kept % LimbBits)
                   high == x[c] \div 2^t
                   low == x[c] % 2^t
                   half == 2^(t - 1)
                   rest == sticky \/ \E j \in (c + 1)..(FractionLimbs + 1) : x[j] # 0
                   odd == IF t < LimbBits THEN high % 2 = 1 ELSE x[c - 1] % 2 = 1
                   up == low > half \/ (low = half /\ (rest \/ odd))
                   D(j) == IF j < c THEN x[j] ELSE IF j = c THEN high * 2^t ELSE 0
                   down == <<D(1), D(2), D(3), D(4), D(5), D(6)>>
               IN IF up THEN Carry([down EXCEPT ![c] = @ + 2^t], c) ELSE down

\* i / n of two integers 0 <= i, 0 < n < 2^15 (Python's true division): the
\* long division of i by n to 80 fractional bits, rounded.
Quotient(i, n) ==
  LET r0 == i % n
      l1 == (r0 * LimbBase) \div n
      r1 == (r0 * LimbBase) % n
      l2 == (r1 * LimbBase) \div n
      r2 == (r1 * LimbBase) % n
      l3 == (r2 * LimbBase) \div n
      r3 == (r2 * LimbBase) % n
      l4 == (r3 * LimbBase) \div n
      r4 == (r3 * LimbBase) % n
      l5 == (r4 * LimbBase) \div n
      r5 == (r4 * LimbBase) % n
  IN RoundToDouble(<<i \div n, l1, l2, l3, l4, l5>>, r5 # 0)

\* x * k of a double and a small integer: the exact product, rounded.
Times(x, k) ==
  LET p6 == x[6] * k
      p5 == x[5] * k + p6 \div LimbBase
      p4 == x[4] * k + p5 \div LimbBase
      p3 == x[3] * k + p4 \div LimbBase
      p2 == x[2] * k + p3 \div LimbBase
      p1 == x[1] * k + p2 \div LimbBase
  IN RoundToDouble(<<p1, p2 % LimbBase, p3 % LimbBase, p4 % LimbBase,
                     p5 % LimbBase, p6 % LimbBase>>, FALSE)

\* x + k of a double and a small integer: the exact sum, rounded.
Plus(x, k) == RoundToDouble([x EXCEPT ![1] = @ + k], FALSE)

\* ---------------------------------------------------------------- messages
IsSystem(m) == m.role = "system"
IsHuman(m) == m.role = "human"
IsAI(m) == m.role = "ai"

\* A text that is no generated summary and that the backend encodes to tok
\* tokens.  head_kws are the keywords that stand whole within content[:50],
\* head_unencodable says whether encode raises on content[:50] too.  Here every
\* keyword stands within the first 50 characters.
Text(len, kws, tok) ==
  [len |-> len, kws |-> kws, tok |-> tok, summary |-> <<>>, unencodable |-> FALSE,
   head_kws |-> kws, head_unencodable |-> FALSE]

\* The same, with every keyword behind character 50 (or cut in two there).
TailText(len, kws, tok) ==
  [len |-> len, kws |-> kws, tok |-> tok, summary |-> <<>>, unencodable |-> FALSE,
   head_kws |-> {}, head_unencodable |-> FALSE]

\* A text on which self.encoding.encode raises (no token count exists for it);
\* what makes encode raise stands within the first 50 characters.
UnencodableText(len, kws) ==
  [len |-> len, kws |-> kws, tok |-> 0, summary |-> <<>>, unencodable |-> TRUE,
   head_kws |-> kws, head_unencodable |-> TRUE]

\* The same, with what makes encode raise behind character 50: content[:50]
\* is a text the backend encodes.
TailUnencodableText(len, kws) ==
  [len |-> len, kws |-> kws, tok |-> 0, summary |-> <<>>, unencodable |-> TRUE,
   head_kws |-> kws, head_unencodable |-> FALSE]

\* A message object: its class (role), its content, and its identity.  The
\* messages of an input window are the objects 1, 2, ... in window order; an
\* object the manager itself creates has identity 0.
Message(role, content, id) == [role |-> role, content |-> content, id |-> id]

SystemMessage(content) == Message("system", content, 0)

\* The messages input windows are built from: a short directive; a long user
\* question that mentions one keyword and costs two tokens; and an agent turn
\* with empty content (a bare tool call), for which the backend returns no token.
Alphabet ==
  { [role |-> "system", content |-> Text(12, {}, 1)],
    [role |-> "human", content |-> Text(250, {"risk"}, 2)],
    [role |-> "ai", content |-> Text(0, {}, 0)] }

\* All sequences over Alphabet of length at most n.
RECURSIVE Shapes(_)
Shapes(n) ==
  IF n = 0 THEN {<<>>}
  ELSE LET shorter == Shapes(n - 1)
       IN shorter \cup {Append(w, m) : w \in {v \in shorter : Len(v) = n - 1}, m \in Alphabet}

\* The input windows: every sequence of at most MaxLen distinct message objects.
Windows ==
  {[i \in 1..Len(w) |-> Message(w[i].role, w[i].content, i)] : w \in Shapes(MaxLen)}

\* ---------------------------------------------------------- token estimator
\* Characters per token of the estimate of line 38.
CharsPerToken == 4

\* count_tokens: len(self.encoding.encode(content)), the backend's answer for
\* this content; when encode raises, the except branch of line 38.
CountTokens(message) ==
  IF message.content.unencodable
    THEN message.content.len \div CharsPerToken
    ELSE message.content.tok

\* count_total_tokens
RECURSIVE CountTotalTokens(_)
CountTotalTokens(messages) ==
  IF messages = <<>> THEN 0
  ELSE CountTokens(Head(messages)) + CountTotalTokens(Tail(messages))

\* ---------------------------------------------------------- priority scorer
RoleBase(message) ==
  IF IsSystem(message) THEN SystemBase
  ELSE IF IsAI(message) THEN AIBase
  ELSE IF IsHuman(message) THEN HumanBase
  ELSE 0

LengthBonus(message) ==
  IF message.content.len > LongLength THEN LongBonus
  ELSE IF message.content.len > MediumLength THEN MediumBonus
  ELSE 0

KeywordCount(message) ==
  Cardinality({i \in 1..Len(PriorityKeywords) : PriorityKeywords[i] \in message.content.kws})

\* get_message_priority as a slip would write it: the position score is
\* index * 30, not divided by total_count.
GetMessagePriorityUnnormalised(message, index, total_count) ==
  LET priority == Plus(Plus(Plus(FromInt(index * PositionWeight), RoleBase(message)),
                            LengthBonus(message)),
                       KeywordCount(message) * KeywordWeight)
  IN IF Less(FromInt(PriorityCap), priority) THEN FromInt(PriorityCap) ELSE priority

\* position_score of line 70: (index / total_count) * 30, two float operations.
PositionScore(index, total_count) == Times(Quotient(index, total_count), PositionWeight)

\* The float lines 60-85 compute from the role points, the length points, the
\* number of keywords and the position: each += a float addition (adding 0
\* changes nothing), then min(priority, 100).
Score(role_base, length_bonus, keyword_count, index, total_count) ==
  LET priority == Plus(Plus(Plus(PositionScore(index, total_count), role_base),
                            length_bonus),
                       keyword_count * KeywordWeight)
  IN IF Less(FromInt(PriorityCap), priority) THEN FromInt(PriorityCap) ELSE priority

\* Score for every total_count up to MaxTabled, computed once.
MaxTabled == 12

ScoreTable ==
  [total_count \in 1..MaxTabled |->
    [index \in 0..(total_count - 1) |->
      [role_base \in {0, HumanBase, AIBase, SystemBase} |->
        [length_bonus \in {0, MediumBonus, LongBonus} |->
          [keyword_count \in 0..Len(PriorityKeywords) |->
             Score(role_base, length_bonus, keyword_count, index, total_count)]]]]]

\* get_message_priority: the float the code returns.
GetMessagePriority(message, index, total_count) ==
  IF total_count \in 1..MaxTabled /\ index \in 0..(total_count - 1)
    THEN ScoreTable[total_count][index][RoleBase(message)][LengthBonus(message)][KeywordCount(message)]
    ELSE Score(RoleBase(message), LengthBonus(message), KeywordCount(message),
               index, total_count)

\* The division index / total_count of line 70 raises ZeroDivisionError.
GetMessagePriorityRaises(message, index, total_count) == total_count = 0

\* --------------------------------------------------------------- summarizer
\* mentioned_topics: the keywords of the summarizer's list that occur in the
\* joined contents, in list order.
MentionedTopics(messages) ==
  LET present == UNION {messages[i].content.kws : i \in 1..Len(messages)}
      Occurs(kw) == kw \in present
  IN SelectSeq(SummaryKeywords, Occurs)

\* important_exchanges as a slip would write it: the loop runs over
\* range(len(messages)), the last message included.
ImportantExchangesWholeRun(messages) ==
  LET humans == SelectSeq(messages, IsHuman)
      Excerpt(m) == [chars |-> Min(m.content.len, ExcerptChars), marker |-> "...",
                     kws |-> m.content.head_kws,
                     unencodable |-> m.content.head_unencodable]
  IN [i \in 1..Min(Len(humans), ExcerptCap) |-> Excerpt(humans[i])]

\* important_exchanges: the loop of lines 142-146 scans messages[0 .. len-2] and
\* keeps content[:50] of the first two HumanMessages it meets.  An excerpt
\* holds the keywords that stand within those 50 characters, and encode raises
\* on it when it raises on them.
ImportantExchanges(messages) ==
  LET scanned == PyUpTo(messages, Max(Len(messages) - 1, 0))
      humans == SelectSeq(scanned, IsHuman)
      Excerpt(m) == [chars |-> Min(m.content.len, ExcerptChars), marker |-> "...",
                     kws |-> m.content.head_kws,
                     unencodable |-> m.content.head_unencodable]
  IN [i \in 1..Min(Len(humans), ExcerptCap) |-> Excerpt(humans[i])]

\* _generate_summary as a slip would write it: every message that is no
\* AIMessage is counted as a user question.
GenerateSummaryCountsDirectives(messages) ==
  IF messages = <<>>
    THEN [empty |-> TRUE, users |-> 0, ais |-> 0, topics |-> <<>>, exchanges |-> <<>>]
    ELSE [empty |-> FALSE,
          users |-> Len(messages) - Len(SelectSeq(messages, IsAI)),
          ais |-> Len(SelectSeq(messages, IsAI)),
          topics |-> PyUpTo(MentionedTopics(messages), Min(TopicCap, Len(MentionedTopics(messages)))),
          exchanges |-> ImportantExchanges(messages)]

\* _generate_summary: what the returned string states.  "empty" is the fixed
\* string returned for an empty list.
GenerateSummary(messages) ==
  IF messages = <<>>
    THEN [empty |-> TRUE, users |-> 0, ais |-> 0, topics |-> <<>>, exchanges |-> <<>>]
    ELSE [empty |-> FALSE,
          users |-> Len(SelectSeq(messages, IsHuman)),
          ais |-> Len(SelectSeq(messages, IsAI)),
          topics |-> PyUpTo(MentionedTopics(messages), Min(TopicCap, Len(MentionedTopics(messages)))),
          exchanges |-> ImportantExchanges(messages)]

\* Number of decimal digits of n >= 0.
RECURSIVE Digits(_)
Digits(n) == IF n < 10 THEN 1 ELSE 1 + Digits(n \div 10)

RECURSIVE SumChars(_)
SumChars(exchanges) ==
  IF exchanges = <<>> THEN 0
  ELSE Head(exchanges).chars + 3 + SumChars(Tail(exchanges))

\* Character length of the string _generate_summary returns (each keyword is two
\* characters long, each excerpt ends in "...").
SummaryLength(summary) ==
  IF summary.empty THEN 5
  ELSE 13 + Digits(summary.users) + Digits(summary.ais)
       + (IF summary.topics = <<>> THEN 0 ELSE 9 + 4 * Len(summary.topics) - 2)
       + (IF summary.exchanges = <<>> THEN 0
          ELSE 8 + SumChars(summary.exchanges) + 2 * (Len(summary.exchanges) - 1))

\* The summary_message of line 109: a SystemMessage whose content is the
\* 9-character tag followed by the summary.  tokens is what the backend returns
\* for that text.  The keywords of the text are the topics it lists and those
\* of its excerpts; encode raises on it when it raises on an excerpt.  (Only
\* the content of a HumanMessage is excerpted, line 143, so what stands in the
\* first 50 characters of a summary is never observed.)
SummaryMessage(summary, tokens) ==
  SystemMessage(
    [len |-> 9 + SummaryLength(summary),
     kws |-> Range(summary.topics)
             \cup UNION {summary.exchanges[i].kws : i \in 1..Len(summary.exchanges)},
     tok |-> tokens,
     summary |-> <<summary>>,
     unencodable |-> \E i \in 1..Len(summary.exchanges) : summary.exchanges[i].unencodable])

IsSummary(m) == m.content.summary # <<>>

\* ------------------------------------------------------ count compression
\* compress_old_messages as a slip would write it: the test of line 107 is
\* missing, _generate_summary is called whatever old_messages holds.
CompressOldMessagesUnguarded(messages, keep_count, summary_tokens) ==
  IF Len(messages) <= keep_count THEN messages
  ELSE LET recent_messages == PyLast(messages, keep_count)
           old_messages == PyButLast(messages, keep_count)
           summary_message == SummaryMessage(GenerateSummary(old_messages), summary_tokens)
       IN IF recent_messages # <<>> /\ IsSystem(recent_messages[1])
            THEN <<recent_messages[1], summary_message>> \o Tail(recent_messages)
            ELSE <<summary_message>> \o recent_messages

\* compress_old_messages as a slip would write it: line 113 concatenates
\* recent_messages, not recent_messages[1:], so the leading SystemMessage is
\* in the result twice.
CompressOldMessagesKeepsFirstTwice(messages, keep_count, summary_tokens) ==
  IF Len(messages) <= keep_count THEN messages
  ELSE LET recent_messages == PyLast(messages, keep_count)
           old_messages == PyButLast(messages, keep_count)
           summary_message == SummaryMessage(GenerateSummary(old_messages), summary_tokens)
       IN IF old_messages # <<>>
            THEN IF recent_messages # <<>> /\ IsSystem(recent_messages[1])
                   THEN <<recent_messages[1], summary_message>> \o recent_messages
                   ELSE <<summary_message>> \o recent_messages
            ELSE recent_messages

\* compress_old_messages.  summary_tokens is the backend's token count of the
\* summary text the call generates.
CompressOldMessages(messages, keep_count, summary_tokens) ==
  IF Len(messages) <= keep_count THEN messages
  ELSE LET recent_messages == PyLast(messages, keep_count)
           old_messages == PyButLast(messages, keep_count)
           summary_message == SummaryMessage(GenerateSummary(old_messages), summary_tokens)
       IN IF old_messages # <<>>
            THEN IF recent_messages # <<>> /\ IsSystem(recent_messages[1])
                   THEN <<recent_messages[1], summary_message>> \o Tail(recent_messages)
                   ELSE <<summary_message>> \o recent_messages
            ELSE recent_messages

\* ------------------------------------------------------ token compression
\* message_priorities of lines 192-196: one (msg, priority, tokens, i) per
\* non-system message, i its index among the non-system messages.
MessagePriorities(other_messages) ==
  [k \in 1..Len(other_messages) |->
     [msg |-> other_messages[k],
      priority |-> GetMessagePriority(other_messages[k], k - 1, Len(other_messages)),
      tokens |-> CountTokens(other_messages[k]),
      i |-> k - 1]]

\* The insertion as an unstable descending sort would do it: an entry goes in
\* front of the entries of equal priority.
RECURSIVE InsertByPriorityTiesReversed(_, _)
InsertByPriorityTiesReversed(sorted, entry) ==
  IF sorted = <<>> THEN <<entry>>
  ELSE IF Less(entry.priority, Head(sorted).priority)
         THEN <<Head(sorted)>> \o InsertByPriorityTiesReversed(Tail(sorted), entry)
         ELSE <<entry>> \o sorted

\* Insert an entry behind every entry whose priority is not lower.
RECURSIVE InsertByPriority(_, _)
InsertByPriority(sorted, entry) ==
  IF sorted = <<>> THEN <<entry>>
  ELSE IF AtLeast(Head(sorted).priority, entry.priority)
         THEN <<Head(sorted)>> \o InsertByPriority(Tail(sorted), entry)
         ELSE <<entry>> \o sorted

\* list.sort(key=priority, reverse=True): descending, stable (entries of equal
\* priority keep their list order).
RECURSIVE SortByPriority(_)
SortByPriority(entries) ==
  IF entries = <<>> THEN <<>>
  ELSE InsertByPriority(SortByPriority(PyUpTo(entries, Len(entries) - 1)),
                        entries[Len(entries)])

\* The loop of lines 205-210 as a slip would write it: the test of line 206
\* looks at the running total alone, before the candidate is added.
RECURSIVE SelectLoopLateTest(_, _, _, _)
SelectLoopLateTest(ranked, selected_messages, current_tokens, max_tokens) ==
  IF ranked = <<>> THEN selected_messages
  ELSE IF current_tokens <= max_tokens
         THEN SelectLoopLateTest(Tail(ranked), Append(selected_messages, Head(ranked).msg),
                                 current_tokens + Head(ranked).tokens, max_tokens)
         ELSE selected_messages

\* The loop of lines 205-210: accept ranked entries while they fit, stop at the
\* first one that does not.
RECURSIVE SelectLoop(_, _, _, _)
SelectLoop(ranked, selected_messages, current_tokens, max_tokens) ==
  IF ranked = <<>> THEN selected_messages
  ELSE IF current_tokens + Head(ranked).tokens <= max_tokens
         THEN SelectLoop(Tail(ranked), Append(selected_messages, Head(ranked).msg),
                         current_tokens + Head(ranked).tokens, max_tokens)
         ELSE selected_messages

NotSystem(m) == ~IsSystem(m)

\* selected_messages as it stands at line 212.
SelectedMessages(messages, max_tokens) ==
  LET system_messages == SelectSeq(messages, IsSystem)
      other_messages == SelectSeq(messages, NotSystem)
  IN SelectLoop(SortByPriority(MessagePriorities(other_messages)),
                system_messages, CountTotalTokens(system_messages), max_tokens)

\* _compress_by_tokens as a slip would write it: line 213 tests <= 6, so a
\* selection of exactly 6 messages is discarded too.
CompressByTokensFloorInclusive(messages, max_tokens) ==
  IF messages = <<>> THEN messages
  ELSE IF Len(SelectedMessages(messages, max_tokens)) <= MinKeep
         THEN CompressOldMessages(PyLast(messages, MinKeep), MinKeep, 0)
         ELSE SelectedMessages(messages, max_tokens)

\* _compress_by_tokens.  The call of compress_old_messages at line 215 is handed
\* at most 6 messages and so generates no summary text; 0 stands for the token
\* count of a text that is never built.
CompressByTokens(messages, max_tokens) ==
  IF messages = <<>> THEN messages
  ELSE IF Len(SelectedMessages(messages, max_tokens)) < MinKeep
         THEN CompressOldMessages(PyLast(messages, MinKeep), MinKeep, 0)
         ELSE SelectedMessages(messages, max_tokens)

\* ZeroDivisionError inside _compress_by_tokens: a scoring call of the loop of
\* lines 193-196 with total_count = 0.
CompressByTokensRaises(messages) ==
  /\ messages # <<>>
  /\ LET other_messages == SelectSeq(messages, NotSystem)
     IN \E k \in 1..Len(other_messages) :
          GetMessagePriorityRaises(other_messages[k], k - 1, Len(other_messages))

\* --------------------------------------------------------------- statistics
\* get_stats as a slip would write it: user_messages counts every message that
\* is no SystemMessage.
GetStatsUsersAreTheRest(messages) ==
  IF messages = <<>>
    THEN [total_messages |-> 0, total_tokens |-> 0, system_messages |-> 0,
          user_messages |-> 0, ai_messages |-> 0, avg_tokens_per_message |-> <<>>]
    ELSE [total_messages |-> Len(messages),
          total_tokens |-> CountTotalTokens(messages),
          system_messages |-> Len(SelectSeq(messages, IsSystem)),
          user_messages |-> Len(messages) - Len(SelectSeq(messages, IsSystem)),
          ai_messages |-> Len(SelectSeq(messages, IsAI)),
          avg_tokens_per_message |-> <<CountTotalTokens(messages) \div Len(messages)>>]

\* get_stats: the returned dict.  avg_tokens_per_message is <<>> where the dict
\* has no such key (lines 236-242) and <<value>> where it has.
GetStats(messages) ==
  IF messages = <<>>
    THEN [total_messages |-> 0, total_tokens |-> 0, system_messages |-> 0,
          user_messages |-> 0, ai_messages |-> 0, avg_tokens_per_message |-> <<>>]
    ELSE [total_messages |-> Len(messages),
          total_tokens |-> CountTotalTokens(messages),
          system_messages |-> Len(SelectSeq(messages, IsSystem)),
          user_messages |-> Len(SelectSeq(messages, IsHuman)),
          ai_messages |-> Len(SelectSeq(messages, IsAI)),
          avg_tokens_per_message |-> <<CountTotalTokens(messages) \div Len(messages)>>]

\* get_stats without the guard of line 235: the division of line 250 is reached
\* for every window.
GetStatsRaisesUnguarded(messages) == Len(messages) = 0

\* ZeroDivisionError inside get_stats: the division of line 250 by len(messages).
GetStatsRaises(messages) ==
  IF messages = <<>> THEN FALSE ELSE Len(messages) = 0

\* -------------------------------------------------------------------- state
VARIABLES
  max_messages,   \* self.max_messages
  max_tokens,     \* self.max_tokens
  pc,             \* position of the call of optimize_messages
  input,          \* the caller's window, as passed to optimize_messages
  messages,       \* the local variable messages of optimize_messages
  counted,        \* <<messages>> as it left the count check (lines 169-171)
  selected,       \* <<selected_messages>> of line 212 when _compress_by_tokens ran
  stats,          \* <<the dict get_stats returned>> for the optimized window
  encoding,       \* self.encoding: "none" before __init__, then the loaded table
  call,           \* <<method, arguments>> of a direct call of another method
  ret,            \* <<the value that call returned>>
  other           \* the frame of a second optimize_messages call running on the
                  \* same manager in another thread (<<>> when there is none)

vars == <<max_messages, max_tokens, pc, input, messages, counted, selected, stats,
          encoding, call, ret, other>>

\* What the pipeline of optimize_messages never touches.
rest == <<encoding, call, ret, other>>

\* __init__: a manager with its two limits; no call is in progress.
Init ==
  /\ max_messages \in 1..MaxMessagesBound
  /\ max_tokens \in 1..MaxTokensBound
  /\ pc = "idle"
  /\ input = <<>>
  /\ messages = <<>>
  /\ counted = <<>>
  /\ selected = <<>>
  /\ stats = <<>>
  /\ encoding = "cl100k_base"
  /\ call = <<>>
  /\ ret = <<>>
  /\ other = <<>>

\* A caller invokes optimize_messages(W).
Call ==
  /\ pc = "idle"
  /\ \E w \in Windows :
       /\ input' = w
       /\ messages' = w
  /\ pc' = "Initial"
  /\ UNCHANGED <<rest, max_messages, max_tokens, counted, selected, stats>>

\* line 169: len(messages) > self.max_messages
OverMessageLimit(count, limit) == count > limit

\* line 175, as a slip would write it: the limit itself already counts as exceeded.
OverTokenLimitInclusive(total_tokens, limit) == total_tokens >= limit

\* line 175: total_tokens > self.max_tokens
OverTokenLimit(total_tokens, limit) == total_tokens > limit

\* lines 163-164: an empty window is returned at once.
ReturnEmpty ==
  /\ pc = "Initial"
  /\ messages = <<>>
  /\ pc' = "Final"
  /\ UNCHANGED <<rest, max_messages, max_tokens, input, messages, counted, selected, stats>>

\* lines 168-171: the count check.
CountCheck ==
  /\ pc = "Initial"
  /\ messages # <<>>
  /\ \E summary_tokens \in 1..MaxSummaryTokens :
       messages' = IF OverMessageLimit(Len(messages), max_messages)
                     THEN CompressOldMessages(messages, max_messages, summary_tokens)
                     ELSE messages
  /\ counted' = <<messages'>>
  /\ pc' = "CountChecked"
  /\ UNCHANGED <<rest, max_messages, max_tokens, input, selected, stats>>

\* lines 173-177: the token check; _compress_by_tokens runs inside it.
TokenCheck ==
  /\ pc = "CountChecked"
  /\ IF OverTokenLimit(CountTotalTokens(messages), max_tokens)
       THEN IF CompressByTokensRaises(messages)
              THEN /\ pc' = "Error"
                   /\ UNCHANGED <<messages, selected>>
              ELSE /\ messages' = CompressByTokens(messages, max_tokens)
                   /\ selected' = IF messages = <<>> THEN <<>>
                                  ELSE <<SelectedMessages(messages, max_tokens)>>
                   /\ pc' = "TokenChecked"
       ELSE /\ pc' = "TokenChecked"
            /\ UNCHANGED <<messages, selected>>
  /\ UNCHANGED <<rest, max_messages, max_tokens, input, counted, stats>>

\* The return as a retry loop would write it: a window still over the token
\* limit is sent through both checks again.
ReturnRetry ==
  /\ pc = "TokenChecked"
  /\ pc' = IF OverTokenLimit(CountTotalTokens(messages), max_tokens) THEN "Initial" ELSE "Final"
  /\ UNCHANGED <<rest, max_messages, max_tokens, input, messages, counted, selected, stats>>

\* lines 179-180: return messages.
Return ==
  /\ pc = "TokenChecked"
  /\ pc' = "Final"
  /\ UNCHANGED <<rest, max_messages, max_tokens, input, messages, counted, selected, stats>>

\* The caller asks get_stats for the statistics of the window it got back
\* (handler_agent.py lines 283-286).
Stats ==
  /\ pc = "Final"
  /\ IF GetStatsRaises(messages)
       THEN /\ pc' = "Error"
            /\ UNCHANGED stats
       ELSE /\ pc' = "Reported"
            /\ stats' = <<GetStats(messages)>>
  /\ UNCHANGED <<rest, max_messages, max_tokens, input, messages, counted, selected>>

Next == Call \/ ReturnEmpty \/ CountCheck \/ TokenCheck \/ Return \/ Stats

Spec == Init /\ [][Next]_vars

\* ------------------------------------------------------------------- claims
Systems(window) == SelectSeq(window, IsSystem)
Others(window) == SelectSeq(window, NotSystem)
HasSystem(window) == \E i \in 1..Len(window) : IsSystem(window[i])

\* C1 (as claimed): the window that leaves the count check has at most
\* max_messages messages.
C1_CountLimit ==
  pc = "CountChecked" => Len(messages) <= max_messages

\* C2 (as claimed): the returned window costs at most max_tokens or has exactly
\* 6 messages.
C2_TokenLimit ==
  pc = "Final" =>
    \/ CountTotalTokens(messages) <= max_tokens
    \/ Len(messages) = MinKeep

\* C2 (amended): the returned window costs at most max_tokens, or has at most 6
\* messages, or the SystemMessages of the window that entered the token check
\* alone cost more than max_tokens.
C2_TokenLimitAmended ==
  pc = "Final" =>
    \/ CountTotalTokens(messages) <= max_tokens
    \/ Len(messages) <= MinKeep
    \/ CountTotalTokens(Systems(counted[1])) > max_tokens

\* C2 witness: token compression dropped a message of a window longer than 6 and
\* returned its selection, within the budget.
C2_Witness ==
  /\ pc = "Final"
  /\ selected # <<>>
  /\ messages = selected[1]
  /\ Len(messages) >= MinKeep
  /\ Len(messages) < Len(counted[1])
  /\ CountTotalTokens(messages) <= max_tokens

\* C3 (as claimed): if the input window holds a SystemMessage anywhere, the
\* returned window starts with a SystemMessage.
C3_DirectiveFirst ==
  (pc = "Final" /\ HasSystem(input)) =>
    (messages # <<>> /\ IsSystem(messages[1]))

\* C4 (as claimed): every SystemMessage of the input window is in the returned
\* window, and an input of one leading SystemMessage followed by more than
\* max_messages other messages comes back as that SystemMessage, then the summary.
C4_DirectivePreserved ==
  pc = "Final" =>
    /\ \A i \in 1..Len(input) :
         IsSystem(input[i]) => \E j \in 1..Len(messages) : messages[j] = input[i]
    /\ ( /\ input # <<>>
         /\ IsSystem(input[1])
         /\ Others(input) = Tail(input)
         /\ Len(input) - 1 > max_messages )
       => ( /\ Len(messages) >= 2
            /\ messages[1] = input[1]
            /\ IsSummary(messages[2]) )

\* C5 (as claimed): two non-system messages of the returned window stand in the
\* order they had in the input window.
C5_OrderPreserved ==
  pc = "Final" =>
    \A a, b \in 1..Len(messages) :
      ( /\ NotSystem(messages[a])
        /\ NotSystem(messages[b])
        /\ messages[a].id < messages[b].id ) => a < b

\* Tokens of the entries ranked before position k that the selection accepted,
\* on top of the tokens of the system messages.
RECURSIVE RunningTotal(_, _, _, _)
RunningTotal(ranked, k, accepted, system_tokens) ==
  IF k <= 1 THEN system_tokens
  ELSE RunningTotal(ranked, k - 1, accepted, system_tokens)
       + (IF ranked[k - 1].msg \in accepted THEN ranked[k - 1].tokens ELSE 0)

\* C6 (as claimed): in token-based selection every ranked candidate that fits
\* the budget at its turn is accepted, also behind a candidate that did not fit.
C6_GreedyNoEarlyStop ==
  selected # <<>> =>
    LET ranked == SortByPriority(MessagePriorities(Others(counted[1])))
        accepted == Range(selected[1])
        system_tokens == CountTotalTokens(Systems(counted[1]))
    IN \A k \in 1..Len(ranked) :
         RunningTotal(ranked, k, accepted, system_tokens) + ranked[k].tokens <= max_tokens
           => ranked[k].msg \in accepted

\* C7: a window within both limits is returned exactly as it was passed.
C7_NoOp ==
  ( /\ pc = "Final"
    /\ Len(input) <= max_messages
    /\ CountTotalTokens(input) <= max_tokens ) => messages = input

\* C7 witness: a window of 6 messages that costs exactly max_tokens came back
\* unchanged.
C7_Witness ==
  /\ pc = "Final"
  /\ Len(input) = MinKeep
  /\ Len(input) <= max_messages
  /\ CountTotalTokens(input) = max_tokens
  /\ messages = input

\* C9 (as claimed): a window without SystemMessage that is longer than
\* max_messages is optimized without error and comes back with the generated
\* summary as its first element.
C9_SummaryFirst ==
  /\ (~HasSystem(input) /\ Len(input) > max_messages) => pc # "Error"
  /\ (pc = "Final" /\ ~HasSystem(input) /\ Len(input) > max_messages) =>
       (messages # <<>> /\ IsSystem(messages[1]) /\ IsSummary(messages[1]))

\* C10: no call ends in an error, for any window (the empty and the one-element
\* windows included), and the empty window is returned as the empty window.
C10_Totality ==
  /\ pc # "Error"
  /\ pc # "idle" => (~CompressByTokensRaises(input) /\ ~GetStatsRaises(input))
  /\ (pc \in {"Final", "Reported"} /\ input = <<>>) => messages = <<>>

\* C10 witness: the empty window went through optimize_messages and get_stats.
C10_Witness ==
  /\ pc = "Reported"
  /\ input = <<>>
  /\ messages = <<>>
  /\ stats = <<GetStats(<<>>)>>

\* ------------------------------------------- construction and the public API
\* A second specification: the manager from its construction on, with limits
\* of either sign, called on short windows through optimize_messages or
\* add_message.

\* Longest window the caller holds in this specification.
MaxApiLen == 3
\* The constructor's limit arguments range over -MaxApiLimit..MaxApiLimit.
MaxApiLimit == 2

LimitArguments == (0 - MaxApiLimit)..MaxApiLimit

ApiWindows ==
  {[i \in 1..Len(w) |-> Message(w[i].role, w[i].content, i)] : w \in Shapes(MaxApiLen)}

\* Before __init__ runs: its arguments are bound, the caller holds a window.
InitApi ==
  /\ max_messages \in LimitArguments
  /\ max_tokens \in LimitArguments
  /\ pc = "new"
  /\ input \in ApiWindows
  /\ messages = <<>>
  /\ counted = <<>>
  /\ selected = <<>>
  /\ stats = <<>>
  /\ encoding = "none"
  /\ call = <<>>
  /\ ret = <<>>
  /\ other = <<>>

\* __init__ (lines 23-29): the two limits are stored as given, then
\* tiktoken.get_encoding loads the table; when the backend cannot provide it the
\* exception leaves __init__ (line 27 stands in no try block).
Construct ==
  /\ pc = "new"
  /\ \E available \in BOOLEAN :
       IF available
         THEN /\ encoding' = "cl100k_base"
              /\ pc' = "idle"
         ELSE /\ encoding' = "failed"
              /\ pc' = "Error"
  /\ UNCHANGED <<call, ret, other, max_messages, max_tokens, input, messages, counted, selected, stats>>

\* The caller invokes optimize_messages(input).
CallOptimize ==
  /\ pc = "idle"
  /\ messages' = input
  /\ pc' = "Initial"
  /\ UNCHANGED <<rest, max_messages, max_tokens, input, counted, selected, stats>>

\* add_message as a slip would write it: messages.append(new_message) on the
\* caller's list.
AddMessageInPlace ==
  /\ pc = "idle"
  /\ \E m \in Alphabet :
       /\ input' = Append(input, Message(m.role, m.content, Len(input) + 1))
       /\ messages' = input'
  /\ pc' = "Initial"
  /\ UNCHANGED <<rest, max_messages, max_tokens, counted, selected, stats>>

\* add_message (lines 230-231): updated_messages = messages + [new_message],
\* then optimize_messages(updated_messages).
AddMessage ==
  /\ pc = "idle"
  /\ \E m \in Alphabet :
       messages' = Append(input, Message(m.role, m.content, Len(input) + 1))
  /\ pc' = "Initial"
  /\ UNCHANGED <<rest, max_messages, max_tokens, input, counted, selected, stats>>

NextApi ==
  Construct \/ CallOptimize \/ AddMessage \/ ReturnEmpty \/ CountCheck \/ TokenCheck
    \/ Return \/ Stats

SpecApi == InitApi /\ [][NextApi]_vars

\* C11 (as claimed): a manager whose max_messages or max_tokens is not positive
\* is never constructed: its construction ends in an error, and it never
\* stands ready for a call or inside optimize_messages.
C11_ConfigFailFast ==
  (max_messages <= 0 \/ max_tokens <= 0) => pc \in {"new", "Error"}

\* C13 (as claimed): when the backend cannot provide the table while the
\* manager is constructed, construction still succeeds: the failure never
\* surfaces as an error state.
C13_BackendAbsenceTolerated ==
  encoding = "failed" => pc # "Error"

\* ------------------------------------------------- direct calls of one method
\* A third specification: a manager built with the default limits, on which a
\* caller invokes one of count_tokens, count_total_tokens, get_message_priority,
\* _generate_summary or compress_old_messages directly.

DefaultMaxMessages == 500
DefaultMaxTokens == 50000

\* Longest text handed to count_tokens, in characters.
MaxChars == 9
\* Largest token count the backend returns for such a text.
MaxTok == 2
\* Largest total_count handed to get_message_priority.
MaxCount == 9
\* Longest run handed to _generate_summary and compress_old_messages.
MaxRun == 4

Roles == {"system", "human", "ai"}

\* The first k keywords of the scorer's list.
FirstKeywords(k) == {PriorityKeywords[j] : j \in 1..k}

\* Messages handed to count_tokens: texts the backend encodes, and texts on
\* which encode raises, of every length up to MaxChars.
CountedMessages ==
  {Message(role, UnencodableText(len, {}), 1) : role \in Roles, len \in 0..MaxChars}
    \cup {Message("human", Text(len, {}, tok), 1) : len \in 0..MaxChars, tok \in 0..MaxTok}

\* Messages handed to get_message_priority: every role, the lengths around the
\* two thresholds, and every number of keywords.
ScoredMessages ==
  {Message(role, Text(len, FirstKeywords(k), 1), 1) :
     role \in Roles,
     len \in {0, MediumLength, MediumLength + 1, LongLength, LongLength + 1},
     k \in 0..Len(PriorityKeywords)}

\* The messages runs are built from: a directive; a long and a short user
\* question with a keyword at their start; a long user question whose keyword
\* stands behind character 50; a user text that holds a special token; and
\* two agent turns.  Between them six keywords occur.
RunAlphabet ==
  { [role |-> "system", content |-> Text(12, {}, 1)],
    [role |-> "human", content |-> Text(250, {"stock"}, 2)],
    [role |-> "human", content |-> Text(8, {"investment"}, 1)],
    [role |-> "human", content |-> TailText(250, {"fund"}, 2)],
    [role |-> "human", content |-> UnencodableText(20, {})],
    [role |-> "ai", content |-> Text(120, {"risk", "return"}, 1)],
    [role |-> "ai", content |-> Text(30, {"backtest"}, 1)] }

RECURSIVE RunShapes(_)
RunShapes(n) ==
  IF n = 0 THEN {<<>>}
  ELSE LET shorter == RunShapes(n - 1)
       IN shorter \cup {Append(w, m) : w \in {v \in shorter : Len(v) = n - 1}, m \in RunAlphabet}

Runs ==
  {[i \in 1..Len(w) |-> Message(w[i].role, w[i].content, i)] : w \in RunShapes(MaxRun)}

\* MessageManager(): the default limits, the table loaded.
InitUnit ==
  /\ max_messages = DefaultMaxMessages
  /\ max_tokens = DefaultMaxTokens
  /\ pc = "idle"
  /\ input = <<>>
  /\ messages = <<>>
  /\ counted = <<>>
  /\ selected = <<>>
  /\ stats = <<>>
  /\ encoding = "cl100k_base"
  /\ call = <<>>
  /\ ret = <<>>
  /\ other = <<>>

\* count_tokens(message)
CallCountTokens ==
  /\ pc = "idle"
  /\ \E message \in CountedMessages :
       /\ call' = <<[method |-> "count_tokens", message |-> message]>>
       /\ ret' = <<CountTokens(message)>>
  /\ pc' = "Returned"
  /\ UNCHANGED <<encoding, other, max_messages, max_tokens, input, messages, counted, selected, stats>>

\* count_total_tokens(messages)
CallCountTotalTokens ==
  /\ pc = "idle"
  /\ \E run \in Runs :
       /\ call' = <<[method |-> "count_total_tokens", messages |-> run]>>
       /\ ret' = <<CountTotalTokens(run)>>
  /\ pc' = "Returned"
  /\ UNCHANGED <<encoding, other, max_messages, max_tokens, input, messages, counted, selected, stats>>

\* get_message_priority(message, index, total_count)
CallGetMessagePriority ==
  /\ pc = "idle"
  /\ \E message \in ScoredMessages, total_count \in 1..MaxCount :
       \E index \in 0..(total_count - 1) :
         /\ call' = <<[method |-> "get_message_priority", message |-> message,
                       index |-> index, total_count |-> total_count]>>
         /\ ret' = <<GetMessagePriority(message, index, total_count)>>
  /\ pc' = "Returned"
  /\ UNCHANGED <<encoding, other, max_messages, max_tokens, input, messages, counted, selected, stats>>

\* _generate_summary(messages)
CallGenerateSummary ==
  /\ pc = "idle"
  /\ \E run \in Runs :
       /\ call' = <<[method |-> "_generate_summary", messages |-> run]>>
       /\ ret' = <<GenerateSummary(run)>>
  /\ pc' = "Returned"
  /\ UNCHANGED <<encoding, other, max_messages, max_tokens, input, messages, counted, selected, stats>>

\* compress_old_messages(messages, keep_count); the method takes any integer,
\* 0 included (messages[-0:] is the whole list, messages[:-0] is empty).
CallCompressOldMessages ==
  /\ pc = "idle"
  /\ \E run \in Runs, keep_count \in 0..MaxRun, summary_tokens \in 1..MaxSummaryTokens :
       /\ call' = <<[method |-> "compress_old_messages", messages |-> run,
                     keep_count |-> keep_count]>>
       /\ ret' = <<CompressOldMessages(run, keep_count, summary_tokens)>>
  /\ pc' = "Returned"
  /\ UNCHANGED <<encoding, other, max_messages, max_tokens, input, messages, counted, selected, stats>>

\* Longest window handed to _compress_by_tokens directly.
MaxRanked == 5

\* The messages those windows are built from; among them scores tie (an agent
\* turn of 150 characters at index 0 of 2 and an empty user turn at index 1
\* both score 35).
RankedAlphabet ==
  { [role |-> "system", content |-> Text(12, {}, 1)],
    [role |-> "ai", content |-> Text(150, {}, 1)],
    [role |-> "human", content |-> Text(150, {}, 1)],
    [role |-> "human", content |-> Text(0, {}, 0)] }

RECURSIVE RankedShapes(_)
RankedShapes(n) ==
  IF n = 0 THEN {<<>>}
  ELSE LET shorter == RankedShapes(n - 1)
       IN shorter \cup {Append(w, m) : w \in {v \in shorter : Len(v) = n - 1}, m \in RankedAlphabet}

RankedWindows ==
  {[i \in 1..Len(w) |-> Message(w[i].role, w[i].content, i)] : w \in RankedShapes(MaxRanked)}

\* _compress_by_tokens(messages); selected records selected_messages of line
\* 212.  For an empty list the call returns at line 185, before any selection
\* is made.
CallCompressByTokens ==
  /\ pc = "idle"
  /\ \E window \in RankedWindows :
       /\ call' = <<[method |-> "_compress_by_tokens", messages |-> window]>>
       /\ ret' = <<CompressByTokens(window, max_tokens)>>
       /\ selected' = IF window = <<>> THEN <<>>
                      ELSE <<SelectedMessages(window, max_tokens)>>
  /\ pc' = "Returned"
  /\ UNCHANGED <<encoding, other, max_messages, max_tokens, input, messages, counted, stats>>

NextUnit ==
  CallCountTokens \/ CallCountTotalTokens \/ CallGetMessagePriority
    \/ CallGenerateSummary \/ CallCompressOldMessages \/ CallCompressByTokens

SpecUnit == InitUnit /\ [][NextUnit]_vars

\* The method whose direct call has returned ("" when none has).
Returned == IF pc = "Returned" THEN call[1].method ELSE ""

CeilDiv(a, b) == (a + b - 1) \div b

\* C12 (as claimed): when the backend raises during count_tokens the call
\* returns ceil(len(content) / 4), an integer >= 0; and count_total_tokens of
\* an empty sequence is 0.
C12_FallbackCeil ==
  /\ (Returned = "count_tokens" /\ call[1].message.content.unencodable)
       => /\ ret[1] = CeilDiv(call[1].message.content.len, CharsPerToken)
          /\ ret[1] >= 0
  /\ (Returned = "count_total_tokens" /\ call[1].messages = <<>>) => ret[1] = 0

\* C14 (as claimed): for total_count >= 1 and 0 <= index < total_count the
\* returned priority is an integer in [0, 100] and equals
\* min(roleBase + recencyBonus + lengthBonus + 3 * distinctKeywordsPresent, 100),
\* recencyBonus being 30 * index / total_count.
C14_ScoreInteger ==
  Returned = "get_message_priority" =>
    LET m == call[1].message
        n == call[1].total_count
        roleBase == CASE IsSystem(m) -> SystemBase [] IsAI(m) -> AIBase [] IsHuman(m) -> HumanBase
        lengthBonus == IF m.content.len > LongLength THEN LongBonus
                       ELSE IF m.content.len > MediumLength THEN MediumBonus ELSE 0
        present == Cardinality(m.content.kws \cap Range(PriorityKeywords))
    IN /\ IsWhole(ret[1])
       /\ 0 <= ret[1][1] /\ ret[1][1] <= PriorityCap
       /\ n * ret[1][1] = Min(n * (roleBase + lengthBonus + KeywordWeight * present)
                                + PositionWeight * call[1].index,
                              PriorityCap * n)

\* C15 (as claimed): a Directive scores at least as high as any non-Directive
\* message scored against the same total_count, whatever the two indices,
\* lengths and keyword contents.
C15_RoleDominates ==
  (Returned = "get_message_priority" /\ ~IsSystem(call[1].message)) =>
    \A d \in ScoredMessages :
      IsSystem(d) =>
        \A i \in 0..(call[1].total_count - 1) :
          AtLeast(GetMessagePriority(d, i, call[1].total_count), ret[1])

\* C15 (amended): the same for every non-Directive message in which at most 6
\* of the 8 keywords occur.
C15_RoleDominatesAmended ==
  (Returned = "get_message_priority" /\ ~IsSystem(call[1].message)
     /\ KeywordCount(call[1].message) <= 6) =>
    \A d \in ScoredMessages :
      IsSystem(d) =>
        \A i \in 0..(call[1].total_count - 1) :
          AtLeast(GetMessagePriority(d, i, call[1].total_count), ret[1])

\* A long agent turn with 6 keywords, scored as the last of 8 or more messages.
C15_Witness ==
  /\ Returned = "get_message_priority"
  /\ IsAI(call[1].message)
  /\ KeywordCount(call[1].message) = 6
  /\ call[1].message.content.len > LongLength
  /\ call[1].total_count >= 8
  /\ call[1].index = call[1].total_count - 1
  /\ Less(FromInt(84), ret[1])

\* The scorer's keywords that occur in the joined contents of a run, in the
\* order of their first occurrence (within one text of the model its keywords
\* occur in the order of the scorer's list).
RECURSIVE FirstOccurrenceOrder(_)
FirstOccurrenceOrder(run) ==
  IF run = <<>> THEN <<>>
  ELSE LET before == FirstOccurrenceOrder(PyUpTo(run, Len(run) - 1))
           New(kw) == kw \in run[Len(run)].content.kws /\ kw \notin Range(before)
       IN before \o SelectSeq(PriorityKeywords, New)

\* C16 (as claimed): the summary of a non-empty run lists exactly the keywords
\* of the scorer's 8-keyword set that occur in the discarded text, ordered by
\* first occurrence, truncated to the first 3.
C16_SummaryKeywords ==
  (Returned = "_generate_summary" /\ call[1].messages # <<>>) =>
    LET occurring == FirstOccurrenceOrder(call[1].messages)
    IN ret[1].topics = PyUpTo(occurring, Min(TopicCap, Len(occurring)))

\* C17: the summary of a run holds at most 2 excerpts; they are taken, earliest
\* first, from the user messages of the run that another message follows (the
\* last message of the run is never excerpted), and each is the first 50
\* characters of its message followed by the marker "...".
C17_Excerpts ==
  (Returned = "_generate_summary" /\ call[1].messages # <<>>) =>
    LET run == call[1].messages
        excerpts == ret[1].exchanges
        followed == {i \in 1..(Len(run) - 1) : IsHuman(run[i])}
        Nth(k) == CHOOSE i \in followed : Cardinality({j \in followed : j < i}) = k - 1
    IN /\ Len(excerpts) <= 2
       /\ Len(excerpts) = Min(2, Cardinality(followed))
       /\ \A k \in 1..Len(excerpts) :
            /\ excerpts[k].chars = Min(run[Nth(k)].content.len, 50)
            /\ excerpts[k].marker = "..."
            /\ excerpts[k].kws = run[Nth(k)].content.head_kws

\* A run that ends in a user message and holds one more, a long one: one
\* excerpt of 50 characters.
C17_Witness ==
  /\ Returned = "_generate_summary"
  /\ Len(call[1].messages) >= 2
  /\ IsHuman(call[1].messages[Len(call[1].messages)])
  /\ Len(SelectSeq(call[1].messages, IsHuman)) = 2
  /\ Len(ret[1].exchanges) = 1
  /\ ret[1].exchanges[1].chars = 50

\* C18: when compress_old_messages discards a non-empty run, the one summary
\* message it creates is a SystemMessage, and the numbers of user and agent
\* messages it reports are the numbers of HumanMessages and AIMessages among
\* the discarded messages (discarded SystemMessages are counted in neither).
C18_SummaryCounts ==
  Returned = "compress_old_messages" =>
    LET run == call[1].messages
        Dropped(m) == \A i \in 1..Len(ret[1]) : ret[1][i].id # m.id
        discarded == SelectSeq(run, Dropped)
        created == {i \in 1..Len(ret[1]) : ret[1][i].content.summary # <<>>}
    IN discarded # <<>> =>
       /\ Cardinality(created) = 1
       /\ \A i \in created :
            /\ ret[1][i].role = "system"
            /\ ret[1][i].content.summary[1].users
                 = Cardinality({j \in 1..Len(discarded) : discarded[j].role = "human"})
            /\ ret[1][i].content.summary[1].ais
                 = Cardinality({j \in 1..Len(discarded) : discarded[j].role = "ai"})

\* A discarded run of a directive, a user and an agent message: the summary
\* reports 1 and 1.
C18_Witness ==
  /\ Returned = "compress_old_messages"
  /\ Len(call[1].messages) = call[1].keep_count + 3
  /\ \E i \in 1..3 : IsSystem(call[1].messages[i])
  /\ \E i \in 1..3 : IsHuman(call[1].messages[i])
  /\ \E i \in 1..3 : IsAI(call[1].messages[i])
  /\ \E i \in 1..Len(ret[1]) :
       /\ IsSummary(ret[1][i])
       /\ ret[1][i].content.summary[1].users = 1
       /\ ret[1][i].content.summary[1].ais = 1

\* C19: the dict get_stats returns for a window, the empty one included,
\* reports total_messages = len(W), total_tokens = count_total_tokens(W) and,
\* as system, user and ai counts, the number of messages of each role; the
\* three counts add up to total_messages.
C19_StatsAgree ==
  pc = "Reported" =>
    LET W == messages
        Count(role) == Cardinality({i \in 1..Len(W) : W[i].role = role})
    IN /\ stats[1].total_messages = Len(W)
       /\ stats[1].total_tokens = CountTotalTokens(W)
       /\ stats[1].system_messages = Count("system")
       /\ stats[1].user_messages = Count("human")
       /\ stats[1].ai_messages = Count("ai")
       /\ stats[1].system_messages + stats[1].user_messages + stats[1].ai_messages
            = stats[1].total_messages

\* The statistics of a window of one directive, one user and one agent message.
C19_Witness ==
  /\ pc = "Reported"
  /\ Len(messages) = 3
  /\ stats[1].total_messages = 3
  /\ stats[1].system_messages = 1
  /\ stats[1].user_messages = 1
  /\ stats[1].ai_messages = 1

\* C20: no step of optimize_messages, add_message, compress_old_messages,
\* _compress_by_tokens or get_stats changes the caller's sequence (its length,
\* its order, the role and content of each of its messages), and none changes
\* the manager's max_messages or max_tokens.
C20_NoMutation ==
  [][/\ input' = input
     /\ max_messages' = max_messages
     /\ max_tokens' = max_tokens]_vars

\* add_message or optimize_messages has returned a compressed window with a
\* summary in it, and get_stats has run on it; the caller's sequence holds none.
C20_Witness ==
  /\ pc = "Reported"
  /\ Len(input) >= 2
  /\ \E i \in 1..Len(messages) : IsSummary(messages[i])
  /\ \A i \in 1..Len(input) : ~IsSummary(input[i])
  /\ messages # input

\* ---------------------------------------- two calls on one manager, interleaved
\* A fourth specification: two threads call optimize_messages on the same
\* manager, each on its own window; their steps interleave in any order.  The
\* first thread's frame is pc / input / messages, the second thread's is other.

\* Longest window of either thread.
MaxPairLen == 2
\* The limits of the shared manager range over 1..MaxPairLimit.
MaxPairLimit == 2

PairWindows ==
  {[i \in 1..Len(w) |-> Message(w[i].role, w[i].content, i)] : w \in Shapes(MaxPairLen)}

\* optimize_messages run from entry to return (lines 163-180) on one window.
OptimizeMessages(window, limit_messages, limit_tokens, summary_tokens) ==
  IF window = <<>> THEN window
  ELSE LET after_count ==
             IF OverMessageLimit(Len(window), limit_messages)
               THEN CompressOldMessages(window, limit_messages, summary_tokens)
               ELSE window
       IN IF OverTokenLimit(CountTotalTokens(after_count), limit_tokens)
            THEN CompressByTokens(after_count, limit_tokens)
            ELSE after_count

InitPair ==
  /\ max_messages \in 1..MaxPairLimit
  /\ max_tokens \in 1..MaxPairLimit
  /\ pc = "idle"
  /\ input \in PairWindows
  /\ messages = <<>>
  /\ counted = <<>>
  /\ selected = <<>>
  /\ stats = <<>>
  /\ encoding = "cl100k_base"
  /\ call = <<>>
  /\ ret = <<>>
  /\ other \in {[pc |-> "idle", input |-> w, messages |-> <<>>] : w \in PairWindows}

\* The second thread invokes optimize_messages(other.input).
OtherCall ==
  /\ other.pc = "idle"
  /\ other' = [other EXCEPT !.pc = "Initial", !.messages = other.input]
  /\ UNCHANGED <<encoding, call, ret, max_messages, max_tokens, pc, input, messages,
                 counted, selected, stats>>

\* lines 163-164 in the second thread.
OtherReturnEmpty ==
  /\ other.pc = "Initial"
  /\ other.messages = <<>>
  /\ other' = [other EXCEPT !.pc = "Final"]
  /\ UNCHANGED <<encoding, call, ret, max_messages, max_tokens, pc, input, messages,
                 counted, selected, stats>>

\* The count check of the second thread as a manager with shared state would
\* run it: the compressed window is kept in an attribute of the manager, which
\* is where the first thread's window lives too.
OtherCountCheckShared ==
  /\ other.pc = "Initial"
  /\ other.messages # <<>>
  /\ \E summary_tokens \in 1..MaxSummaryTokens :
       /\ messages' = IF OverMessageLimit(Len(other.messages), max_messages)
                        THEN CompressOldMessages(other.messages, max_messages, summary_tokens)
                        ELSE other.messages
       /\ other' = [other EXCEPT !.pc = "CountChecked", !.messages = messages']
  /\ UNCHANGED <<encoding, call, ret, max_messages, max_tokens, pc, input,
                 counted, selected, stats>>

\* lines 168-171 in the second thread: only its local variable is assigned.
OtherCountCheck ==
  /\ other.pc = "Initial"
  /\ other.messages # <<>>
  /\ \E summary_tokens \in 1..MaxSummaryTokens :
       other' = [other EXCEPT
                   !.pc = "CountChecked",
                   !.messages = IF OverMessageLimit(Len(other.messages), max_messages)
                                  THEN CompressOldMessages(other.messages, max_messages,
                                                           summary_tokens)
                                  ELSE other.messages]
  /\ UNCHANGED <<encoding, call, ret, max_messages, max_tokens, pc, input, messages,
                 counted, selected, stats>>

\* lines 173-177 in the second thread.
OtherTokenCheck ==
  /\ other.pc = "CountChecked"
  /\ other' = IF OverTokenLimit(CountTotalTokens(other.messages), max_tokens)
                THEN IF CompressByTokensRaises(other.messages)
                       THEN [other EXCEPT !.pc = "Error"]
                       ELSE [other EXCEPT !.pc = "TokenChecked",
                                          !.messages = CompressByTokens(other.messages, max_tokens)]
                ELSE [other EXCEPT !.pc = "TokenChecked"]
  /\ UNCHANGED <<encoding, call, ret, max_messages, max_tokens, pc, input, messages,
                 counted, selected, stats>>

\* lines 179-180 in the second thread.
OtherReturn ==
  /\ other.pc = "TokenChecked"
  /\ other' = [other EXCEPT !.pc = "Final"]
  /\ UNCHANGED <<encoding, call, ret, max_messages, max_tokens, pc, input, messages,
                 counted, selected, stats>>

NextPair ==
  CallOptimize \/ ReturnEmpty \/ CountCheck \/ TokenCheck \/ Return
    \/ OtherCall \/ OtherReturnEmpty \/ OtherCountCheck \/ OtherTokenCheck \/ OtherReturn

SpecPair == InitPair /\ [][NextPair]_vars

\* C21: whatever the interleaving of the two calls, each returns what
\* optimize_messages returns for its window when it runs alone.
C21_ConcurrentSafety ==
  /\ pc = "Final" =>
       \E summary_tokens \in 1..MaxSummaryTokens :
         messages = OptimizeMessages(input, max_messages, max_tokens, summary_tokens)
  /\ other.pc = "Final" =>
       \E summary_tokens \in 1..MaxSummaryTokens :
         other.messages = OptimizeMessages(other.input, max_messages, max_tokens, summary_tokens)

\* Both calls have returned, each with a compressed window of its own.
C21_Witness ==
  /\ pc = "Final"
  /\ other.pc = "Final"
  /\ input # other.input
  /\ messages # input
  /\ other.messages # other.input
  /\ messages # other.messages

\* C22 (as claimed): for len(W) > keep_count, compress_old_messages(W,
\* keep_count) is the last keep_count messages of W in their order plus one
\* summary of all messages before them, the summary standing at index 1 when
\* the first of those last messages is a SystemMessage and at index 0
\* otherwise; for len(W) <= keep_count it is W.
C22_CompressShape ==
  Returned = "compress_old_messages" =>
    LET W == call[1].messages
        k == call[1].keep_count
        R == ret[1]
        kept == SubSeq(W, Len(W) - k + 1, Len(W))
        before == SubSeq(W, 1, Len(W) - k)
        at == IF kept # <<>> /\ kept[1].role = "system" THEN 2 ELSE 1
    IN IF Len(W) <= k
         THEN R = W
         ELSE /\ Len(R) = k + 1
              /\ R[at].content.summary = <<GenerateSummary(before)>>
              /\ [i \in 1..k |-> IF i < at THEN R[i] ELSE R[i + 1]] = kept

\* Position of a stage in the pipeline.
Stage(p) ==
  CASE p = "new" -> 0
    [] p = "idle" -> 1
    [] p = "Initial" -> 2
    [] p = "CountChecked" -> 3
    [] p = "TokenChecked" -> 4
    [] p = "Final" -> 5
    [] p = "Reported" -> 6
    [] p = "Error" -> 7

\* C23: a call of optimize_messages only moves forward through Initial,
\* CountChecked, TokenChecked, Final: every step leads to a later stage, so no
\* stage is entered twice and none is re-entered after a later one, and a call
\* in progress leaves the pipeline through Final alone, after at most three
\* further steps.
C23_ForwardPipeline ==
  [][/\ Stage(pc') > Stage(pc)
     /\ pc \in {"Initial", "CountChecked", "TokenChecked"}
          => pc' \in {"CountChecked", "TokenChecked", "Final"}]_vars

\* A call that has returned after both checks ran, the token compression included.
C23_Witness ==
  /\ pc = "Final"
  /\ counted # <<>>
  /\ selected # <<>>
  /\ messages # input

\* The non-system messages of selected_messages, in the order the loop of lines
\* 205-210 was offered them; none when the call made no selection.
Offered == IF selected = <<>> THEN <<>> ELSE SelectSeq(selected[1], NotSystem)

\* The score line 194 computes for a non-system message of the window: its
\* index is its position among the non-system messages.
ScoreIn(window, m) ==
  GetMessagePriority(m,
                     Cardinality({i \in 1..Len(window) : ~IsSystem(window[i]) /\ i < m.id}),
                     Len(SelectSeq(window, NotSystem)))

\* C24: the non-system messages are offered the budget in order of score
\* descending, and of two messages with equal score the one that stands
\* earlier in the window is offered first.
C24_TieBreak ==
  Returned = "_compress_by_tokens" =>
    \A a \in 1..Len(Offered) : \A b \in 1..Len(Offered) :
      a < b =>
        \/ Less(ScoreIn(call[1].messages, Offered[b]), ScoreIn(call[1].messages, Offered[a]))
        \/ /\ ScoreIn(call[1].messages, Offered[a]) = ScoreIn(call[1].messages, Offered[b])
           /\ Offered[a].id < Offered[b].id

\* Two messages of different content score the same and both were offered.
C24_Witness ==
  /\ Returned = "_compress_by_tokens"
  /\ \E a \in 1..Len(Offered) : \E b \in 1..Len(Offered) :
       /\ a < b
       /\ Offered[a].content # Offered[b].content
       /\ ScoreIn(call[1].messages, Offered[a]) = ScoreIn(call[1].messages, Offered[b])

\* C25: when the token-based selection holds fewer than 6 messages (system
\* messages included), _compress_by_tokens returns
\* compress_old_messages(last 6 messages of the window it was given, 6); when
\* it holds 6 or more, it returns the selection.
C25_SafetyFloor ==
  (pc = "TokenChecked" /\ selected # <<>>) =>
    LET given == counted[1]
        last6 == SubSeq(given, Max(1, Len(given) - 5), Len(given))
    IN IF Len(selected[1]) < 6
         THEN \E summary_tokens \in 1..MaxSummaryTokens :
                messages = CompressOldMessages(last6, 6, summary_tokens)
         ELSE messages = selected[1]

\* The floor has cut a window of more than 6 messages down to its last 6.
C25_Witness ==
  /\ pc = "TokenChecked"
  /\ selected # <<>>
  /\ Len(selected[1]) < 6
  /\ Len(counted[1]) > 6
  /\ Len(messages) = 6
  /\ messages[6] = counted[1][Len(counted[1])]

\* The messages of a window that the manager created during the call: each one
\* carries what one invocation of _generate_summary returned.
Created(window) == {i \in 1..Len(window) : window[i].id = 0 /\ IsSummary(window[i])}

\* C26: in a call of optimize_messages or add_message, whatever the window and
\* the limits, _generate_summary is never invoked with an empty sequence: no
\* summary the call created holds the text returned for an empty list.
C26_SummarizerGuard ==
  pc \in {"CountChecked", "TokenChecked", "Final", "Reported"} =>
    \A i \in Created(messages) : ~messages[i].content.summary[1].empty

\* The count check of a manager with max_messages = 0: the window is over the
\* limit, nothing is discarded, and no summary is generated.
C26_Witness ==
  /\ pc = "CountChecked"
  /\ max_messages = 0
  /\ messages # <<>>
  /\ Created(messages) = {}

\* ------------------------------------------------------------- a conversation
\* A fifth specification: a caller that starts from the empty window and keeps
\* the window the manager returned as its window for the next call, which is
\* add_message with a new message or optimize_messages on the window as it is.

\* The limits of the manager range over 1..MaxChatMessages and 1..MaxChatTokens.
MaxChatMessages == 6
MaxChatTokens == 3

\* The objects of a window the caller holds, numbered in window order.
Renumber(window) ==
  [i \in 1..Len(window) |-> Message(window[i].role, window[i].content, i)]

InitChat ==
  /\ max_messages \in 1..MaxChatMessages
  /\ max_tokens \in 1..MaxChatTokens
  /\ pc = "idle"
  /\ input = <<>>
  /\ messages = <<>>
  /\ counted = <<>>
  /\ selected = <<>>
  /\ stats = <<>>
  /\ encoding = "cl100k_base"
  /\ call = <<>>
  /\ ret = <<>>
  /\ other = <<>>

\* The caller invokes add_message(input, new_message) (lines 230-231).
Turn ==
  /\ pc = "idle"
  /\ \E m \in Alphabet :
       LET new_message == Message(m.role, m.content, Len(input) + 1)
       IN /\ call' = <<[method |-> "add_message", new_message |-> new_message]>>
          /\ messages' = Append(input, new_message)
  /\ pc' = "Initial"
  /\ UNCHANGED <<encoding, ret, other, max_messages, max_tokens, input, counted, selected, stats>>

\* The caller invokes optimize_messages(input) on the window it holds.
Again ==
  /\ pc = "idle"
  /\ call' = <<[method |-> "optimize_messages"]>>
  /\ messages' = input
  /\ pc' = "Initial"
  /\ UNCHANGED <<encoding, ret, other, max_messages, max_tokens, input, counted, selected, stats>>

\* The caller keeps the returned window as its window.
Keep ==
  /\ pc = "Final"
  /\ input' = Renumber(messages)
  /\ messages' = <<>>
  /\ counted' = <<>>
  /\ selected' = <<>>
  /\ call' = <<>>
  /\ pc' = "idle"
  /\ UNCHANGED <<encoding, ret, other, max_messages, max_tokens, stats>>

NextChat == Turn \/ Again \/ ReturnEmpty \/ CountCheck \/ TokenCheck \/ Return \/ Keep

SpecChat == InitChat /\ [][NextChat]_vars

\* C27 (as claimed): the window add_message(messages, new_message) returns
\* holds new_message, as its last element.
C27_NewestKept ==
  (pc = "Final" /\ call # <<>> /\ call[1].method = "add_message") =>
    /\ messages # <<>>
    /\ messages[Len(messages)] = call[1].new_message

\* C28: every element of the window optimize_messages(W) returns is a message
\* of W or a summary message generated during the call; no message of W is in
\* it more often than in W; and the call generates at most one summary message.
C28_NoFabrication ==
  pc = "Final" =>
    /\ \A i \in 1..Len(messages) :
         \/ messages[i].id = 0 /\ IsSummary(messages[i])
         \/ /\ messages[i].id \in 1..Len(input)
            /\ messages[i] = input[messages[i].id]
    /\ \A i \in 1..Len(messages) : \A j \in 1..Len(messages) :
         (i # j /\ messages[i].id # 0) => messages[i].id # messages[j].id
    /\ Cardinality(Created(messages)) <= 1
    /\ counted # <<>> => Cardinality(Created(counted[1])) <= 1

\* A returned window of a summary and messages of the input next to it.
C28_Witness ==
  /\ pc = "Final"
  /\ Cardinality(Created(messages)) = 1
  /\ Len(messages) >= 3
  /\ Len(input) > Len(messages)

\* What a window says: the role and the text of each message, whichever object
\* carries them.
Said(window) ==
  [i \in 1..Len(window) |-> [role |-> window[i].role, content |-> window[i].content]]

\* C29 (as claimed): a window that optimize_messages returned comes back with
\* the same messages, in the same order, when it is handed to optimize_messages
\* again with the same limits.
C29_FixedPoint ==
  (pc = "Final" /\ call # <<>> /\ call[1].method = "optimize_messages") =>
    Said(messages) = Said(input)

\* A conversation driven by add_message alone: each call is fed the window the
\* previous one returned (lines 230-231). The window handed to optimize_messages
\* is never empty, so the early return of lines 164-165 is not taken.
NextTalk == Turn \/ CountCheck \/ TokenCheck \/ Return \/ Keep

SpecTalk == InitChat /\ [][NextTalk]_vars

\* The history-summary messages of a window.
Summaries(window) == {i \in 1..Len(window) : IsSummary(window[i])}

\* C30 (as claimed): every window a chain of add_message calls reaches from the
\* empty window, each call fed the previous result, holds at most one
\* history-summary message.
C30_SingleSummary ==
  /\ Cardinality(Summaries(input)) <= 1
  /\ pc = "Final" => Cardinality(Summaries(messages)) <= 1
====
